---- MODULE Spec2Model ----
(***************************************************************************)
(* Water Quality Control tool of ColaWaterToolbox:                         *)
(*   colawater/tools/quality_control.py  (execute, parameters)             *)
(*   colawater/tools/checks/mains.py     (the two water-main checks)       *)
(* Strings that the checks inspect are sequences of one-character strings, *)
(* so that a regular-expression match is computed and not assumed.         *)
(***************************************************************************)
EXTENDS Integers, Sequences, FiniteSets, TLC

VARIABLES
    parameters,  \* the argument of execute: 4 check toggles followed by 8 layers
    table,       \* rows of the data source behind each layer parameter
    files,       \* paths for which scan.exists answers true
    pc,          \* position of execute
    idx,         \* position of the running for-loop
    summary,     \* the report accumulated through sy.add_result/add_note/add_items
    posted,      \* the reports handed to sy.post, in order
    log,         \* the messages handed to log.warning/log.info, in order
    progressor,  \* the state of the progress bar (pg)
    calls        \* the check functions invoked so far, in order

vars == <<parameters, table, files, pc, idx, summary, posted, log, progressor, calls>>

----------------------------------------------------------------------------
\* Bounds of the model
MaxFidRows == 3
MaxMainRows == 3

----------------------------------------------------------------------------
\* Values

\* Python's None in a field that otherwise holds a string
None == <<"None">>

Digits == {"0", "1", "2", "3", "4", "5", "6", "7", "8", "9"}

LAYER_START == 4

check_templates ==
    << <<"fid_check", "Check facility identifier format">>,
       <<"fid_duplicate_check", "Check for duplicate facility identifiers">>,
       <<"wm_file_check", "Check water main files">>,
       <<"wm_datasource_check", "Check water main data sources">> >>

lyr_templates ==
    << <<"ca_lyr", "Casing">>,
       <<"cv_lyr", "Control Valve">>,
       <<"ft_lyr", "Fitting">>,
       <<"hy_lyr", "Hydrant">>,
       <<"sl_lyr", "Service Line">>,
       <<"st_lyr", "Structure">>,
       <<"sv_lyr", "System Valve">>,
       <<"wm_lyr", "Water Main">> >>

\* parameters(): [*checks, *lyrs], each parameter with the value the dialog gave it
\* (v[i] is the truth value of parameter i's value: a ticked box, a chosen layer)
parameter_list(v) ==
    LET templates == check_templates \o lyr_templates
    IN  [i \in 1..Len(templates) |->
            [name |-> templates[i][1], displayName |-> templates[i][2], value |-> v[i]]]

NumParameters == Len(check_templates) + Len(lyr_templates)

LayerNames == {lyr_templates[k][1] : k \in 1..Len(lyr_templates)}

\* the regular expression ^<prefix>\d+<suffix>$
Regex(prefix, suffix) == [prefix |-> prefix, suffix |-> suffix]

regexes ==
    << Regex(<<>>, <<"C", "A">>),
       Regex(<<>>, <<"C", "V">>),
       Regex(<<>>, <<"F", "T">>),
       Regex(<<>>, <<"H", "Y", "D">>),
       Regex(<<>>, <<"S", "E", "R", "V">>),
       Regex(<<>>, <<"S", "T", "R">>),
       Regex(<<>>, <<"S", "V">>),
       Regex(<<"0", "0", "0", "0", "1", "5", "-", "W", "A", "T", "E", "R", "-", "0", "0", "0">>,
             <<>>) >>

----------------------------------------------------------------------------
\* Locals of execute

is_checks == SubSeq(parameters, 1, LAYER_START)
layers == SubSeq(parameters, LAYER_START + 1, Len(parameters))
wm_layer == layers[Len(layers)]
is_fid_format_check == is_checks[1].value
is_fid_duplicate_check == is_checks[2].value
is_wm_file_check == is_checks[3].value
is_wm_ds_check == is_checks[4].value

\* zip(layers, regexes)
Zip(ls, rs) ==
    LET n == IF Len(ls) < Len(rs) THEN Len(ls) ELSE Len(rs)
    IN  [i \in 1..n |-> <<ls[i], rs[i]>>]

\* a plausible slip: the unselected layers are filtered out before the zip
ZipSelected(ls, rs) ==
    Zip(SelectSeq(ls, LAMBDA l : l.value), rs)

layer_regex_pairs_selected == ZipSelected(layers, regexes)

\* zip(layers, regexes), line 50
layer_regex_pairs == Zip(layers, regexes)

----------------------------------------------------------------------------
\* Rows and the cursor

Row(oid, fid, comments, datasource, status) ==
    [OBJECTID |-> oid, FACILITYID |-> fid, COMMENTS |-> comments,
     DATASOURCE |-> datasource, INTEGRATIONSTATUS |-> status]

\* "INTEGRATIONSTATUS = 'Y'" (a NULL status does not compare equal)
WhereIntegrated(row) == row.INTEGRATIONSTATUS = <<"Y">>

\* "INTEGRATIONSTATUS = 'Y' AND (DATASOURCE = 'UNK' OR DATASOURCE = '' OR DATASOURCE IS NULL)"
WhereIncorrectDatasource(row) ==
    /\ row.INTEGRATIONSTATUS = <<"Y">>
    /\ \/ row.DATASOURCE = <<"U", "N", "K">>
       \/ row.DATASOURCE = <<>>
       \/ row.DATASOURCE = None

\* the rows a where clause selects; no clause selects every row
Satisfies(row, where) ==
    CASE where = "" -> TRUE
      [] where = "INTEGRATIONSTATUS = 'Y'" -> WhereIntegrated(row)
      [] where = "INTEGRATIONSTATUS = 'Y' AND (DATASOURCE = 'UNK' OR DATASOURCE = '' OR DATASOURCE IS NULL)" ->
            WhereIncorrectDatasource(row)
      [] where = "INTEGRATIONSTATUS = 'Y' AND (DATASOURCE = 'UNK' OR DATASOURCE = '')" ->
            WhereIncorrectDatasource(row) /\ row.DATASOURCE # None

\* arcpy.da.SearchCursor(path, fields, where): the rows that satisfy the where
\* clause, in source order, each projected to the tuple of the named fields
SearchCursor(rows, fields, where) ==
    LET sel == SelectSeq(rows, LAMBDA row : Satisfies(row, where))
    IN  [i \in 1..Len(sel) |-> [j \in 1..Len(fields) |-> sel[i][fields[j]]]]

----------------------------------------------------------------------------
\* colawater.scan and colawater.tools.checks.fids

\* scan.exists(path): None never exists
exists(path) == path # None /\ path \in files

\* regex.fullmatch(s) for the regular expression ^<prefix>\d+<suffix>$
Matches(s, regex) ==
    LET n == Len(s)
        p == Len(regex.prefix)
        q == Len(regex.suffix)
    IN  /\ n >= p + q + 1
        /\ SubSeq(s, 1, p) = regex.prefix
        /\ SubSeq(s, n - q + 1, n) = regex.suffix
        /\ \A i \in (p + 1)..(n - q) : s[i] \in Digits

\* a slip: only the integrated rows are read
find_incorrect_fids_integrated(l, regex) ==
    SelectSeq(SearchCursor(table[l.name], <<"OBJECTID", "FACILITYID">>,
                           "INTEGRATIONSTATUS = 'Y'"),
              LAMBDA i : i[2] = None \/ ~Matches(i[2], regex))

\* fids.find_incorrect_fids(layer, regex): the (object id, identifier) rows whose
\* identifier is missing or does not fully match
find_incorrect_fids(l, regex) ==
    SelectSeq(SearchCursor(table[l.name], <<"OBJECTID", "FACILITYID">>, ""),
              LAMBDA i : i[2] = None \/ ~Matches(i[2], regex))

\* a row with an empty or missing identifier carries no identifier
HasFid(fid) == fid # None /\ fid # <<>>

\* the object ids of the rows that carry identifier fid, in source order
OidsOf(c, fid) ==
    LET sel == SelectSeq(c, LAMBDA i : i[1] = fid)
    IN  [j \in 1..Len(sel) |-> sel[j][2]]

\* a slip: every identifier group is emitted, the single-member ones included
find_duplicate_fids_all(l) ==
    LET c == SearchCursor(table[l.name], <<"FACILITYID", "OBJECTID">>, "")
        first == SelectSeq([i \in 1..Len(c) |-> i],
                           LAMBDA i : /\ HasFid(c[i][1])
                                      /\ \A j \in 1..(i - 1) : c[j][1] # c[i][1])
    IN  [g \in 1..Len(first) |-> <<c[first[g]][1]>> \o OidsOf(c, c[first[g]][1])]

\* fids.find_duplicate_fids(layer): one record (fid, oid1, oid2, ...) per
\* identifier carried by more than one row, in order of first occurrence
find_duplicate_fids(l) ==
    LET c == SearchCursor(table[l.name], <<"FACILITYID", "OBJECTID">>, "")
        first == SelectSeq([i \in 1..Len(c) |-> i],
                           LAMBDA i : /\ HasFid(c[i][1])
                                      /\ \A j \in 1..(i - 1) : c[j][1] # c[i][1]
                                      /\ Len(OidsOf(c, c[i][1])) > 1)
    IN  [g \in 1..Len(first) |-> <<c[first[g]][1]>> \o OidsOf(c, c[first[g]][1])]

----------------------------------------------------------------------------
\* colawater.tools.checks.mains

\* a slip: the where clause left out
find_nonexistent_assoc_files_all(l) ==
    SelectSeq(SearchCursor(table[l.name], <<"OBJECTID", "COMMENTS">>, ""),
              LAMBDA i : ~exists(i[2]))

find_nonexistent_assoc_files(l) ==
    SelectSeq(SearchCursor(table[l.name], <<"OBJECTID", "COMMENTS">>,
                           "INTEGRATIONSTATUS = 'Y'"),
              LAMBDA i : ~exists(i[2]))

\* a slip in the where clause: the NULL test left out
find_incorrect_datasources_nonull(l) ==
    SearchCursor(table[l.name], <<"OBJECTID", "DATASOURCE">>,
                 "INTEGRATIONSTATUS = 'Y' AND (DATASOURCE = 'UNK' OR DATASOURCE = '')")

find_incorrect_datasources(l) ==
    SearchCursor(table[l.name], <<"OBJECTID", "DATASOURCE">>,
                 "INTEGRATIONSTATUS = 'Y' AND (DATASOURCE = 'UNK' OR DATASOURCE = '' OR DATASOURCE IS NULL)")

----------------------------------------------------------------------------
\* Sums and counts computed by execute

RECURSIVE SumSeq(_)
SumSeq(s) == IF s = <<>> THEN 0 ELSE Head(s) + SumSeq(Tail(s))

\* a slip: the groups are counted instead of their members
num_duplicate_groups(duplicate_fids) == Len(duplicate_fids)

\* sum(len(i) - 1 if len(i) > 0 else 0 for i in duplicate_fids)
num_duplicate_of(duplicate_fids) ==
    SumSeq([g \in 1..Len(duplicate_fids) |->
              IF Len(duplicate_fids[g]) > 0 THEN Len(duplicate_fids[g]) - 1 ELSE 0])

\* a slip: the occurrences are counted instead of the distinct values
num_occurrences(nonexistent_files) == Len(nonexistent_files)

\* len({list[1] for list in nonexistent_files})
num_unique_of(nonexistent_files) ==
    Cardinality({nonexistent_files[i][2] : i \in 1..Len(nonexistent_files)})

----------------------------------------------------------------------------
\* colawater.status: the summary, the log and the progressor

Result(layer, text, n) == [op |-> "result", layer |-> layer, text |-> text, n |-> n, items |-> <<>>]
Note(layer) == [op |-> "note", layer |-> layer, text |-> "CSV_PROCESSING_MSG", n |-> -1, items |-> <<>>]
Items(layer, items) == [op |-> "items", layer |-> layer, text |-> "", n |-> -1, items |-> items]

Message(level, text, layer) == [level |-> level, text |-> text, layer |-> layer]

Progressor(type, message, max) == [type |-> type, message |-> message, max |-> max, position |-> 0]

increment(p) == [p EXCEPT !.position = @ + 1]

Call(check, l, regex, ok) == [check |-> check, layer |-> l.name, regex |-> regex, ok |-> ok]

NoRegex == Regex(<<>>, <<>>)

----------------------------------------------------------------------------
\* execute, lines 23-34: the locals are read and every omitted layer is warned of
Begin ==
    /\ pc = "start"
    /\ LET omitted == SelectSeq(layers, LAMBDA l : ~l.value)
       IN  log' = log \o [i \in 1..Len(omitted) |->
                            Message("warning", "Layer omitted", omitted[i].displayName)]
    /\ progressor' = Progressor("default", "Starting quality control checks...", 0)
    /\ pc' = "format_check"
    /\ UNCHANGED <<parameters, table, files, idx, summary, posted, calls>>

\* line 36, the toggle ticked: line 37
FormatBegin ==
    /\ pc = "format_check"
    /\ is_fid_format_check
    /\ progressor' = Progressor("step", "Checking facility identifier formatting...", 7)
    /\ idx' = 1
    /\ pc' = "format_loop"
    /\ UNCHANGED <<parameters, table, files, summary, posted, log, calls>>

\* line 36, the toggle not ticked
FormatOff ==
    /\ pc = "format_check"
    /\ ~is_fid_format_check
    /\ pc' = "duplicate_check"
    /\ UNCHANGED <<parameters, table, files, idx, summary, posted, log, progressor, calls>>

\* a slip: the unselected layer is checked like a selected one
FormatSkipChecks ==
    /\ pc = "format_loop"
    /\ idx <= Len(layer_regex_pairs)
    /\ ~layer_regex_pairs[idx][1].value
    /\ calls' = Append(calls, Call("find_incorrect_fids", layer_regex_pairs[idx][1],
                                   layer_regex_pairs[idx][2], TRUE))
    /\ progressor' = increment(progressor)
    /\ idx' = idx + 1
    /\ UNCHANGED <<parameters, table, files, pc, summary, posted, log>>

\* lines 51-53: an unselected layer
FormatSkip ==
    /\ pc = "format_loop"
    /\ idx <= Len(layer_regex_pairs)
    /\ ~layer_regex_pairs[idx][1].value
    /\ progressor' = increment(progressor)
    /\ idx' = idx + 1
    /\ UNCHANGED <<parameters, table, files, pc, summary, posted, log, calls>>

\* lines 55-70: a selected layer, find_incorrect_fids returns
FormatLayer ==
    /\ pc = "format_loop"
    /\ idx <= Len(layer_regex_pairs)
    /\ layer_regex_pairs[idx][1].value
    /\ LET l == layer_regex_pairs[idx][1]
           r == layer_regex_pairs[idx][2]
           inc_fids == find_incorrect_fids(l, r)
       IN  /\ log' = Append(log, Message("info", "Checking facility identifier formatting...", l.name))
           /\ calls' = Append(calls, Call("find_incorrect_fids", l, r, TRUE))
           /\ summary' = summary
                \o <<Result(l.name, "Incorrectly formatted facility identifiers (object ID, facility identifier):", -1)>>
                \o (IF inc_fids # <<>> THEN <<Note(l.name)>> ELSE <<>>)
                \o <<Items(l.name, inc_fids),
                     Result(l.name, "incorrectly formatted facility identifiers.", Len(inc_fids))>>
    /\ progressor' = increment(progressor)
    /\ idx' = idx + 1
    /\ UNCHANGED <<parameters, table, files, pc, posted>>

\* a slip: the execution error is caught and the loop goes on
FormatRaiseCaught ==
    /\ pc = "format_loop"
    /\ idx <= Len(layer_regex_pairs)
    /\ layer_regex_pairs[idx][1].value
    /\ LET l == layer_regex_pairs[idx][1]
           r == layer_regex_pairs[idx][2]
       IN  /\ log' = Append(log, Message("info", "Checking facility identifier formatting...", l.name))
           /\ calls' = Append(calls, Call("find_incorrect_fids", l, r, FALSE))
    /\ idx' = idx + 1
    /\ UNCHANGED <<parameters, table, files, pc, summary, posted, progressor>>

\* lines 55-57: a selected layer, find_incorrect_fids raises ExecuteError, which
\* execute does not catch
FormatRaise ==
    /\ pc = "format_loop"
    /\ idx <= Len(layer_regex_pairs)
    /\ layer_regex_pairs[idx][1].value
    /\ LET l == layer_regex_pairs[idx][1]
           r == layer_regex_pairs[idx][2]
       IN  /\ log' = Append(log, Message("info", "Checking facility identifier formatting...", l.name))
           /\ calls' = Append(calls, Call("find_incorrect_fids", l, r, FALSE))
    /\ pc' = "raised"
    /\ UNCHANGED <<parameters, table, files, idx, summary, posted, progressor>>

\* line 50: the zip is exhausted
FormatEnd ==
    /\ pc = "format_loop"
    /\ idx > Len(layer_regex_pairs)
    /\ pc' = "duplicate_check"
    /\ UNCHANGED <<parameters, table, files, idx, summary, posted, log, progressor, calls>>

\* line 72, the toggle ticked: lines 73-75
DuplicateBegin ==
    /\ pc = "duplicate_check"
    /\ is_fid_duplicate_check
    /\ progressor' = Progressor("step", "Checking for duplicate facility identifiers...", 7)
    /\ idx' = 1
    /\ pc' = "duplicate_loop"
    /\ UNCHANGED <<parameters, table, files, summary, posted, log, calls>>

\* line 72, the toggle not ticked
DuplicateOff ==
    /\ pc = "duplicate_check"
    /\ ~is_fid_duplicate_check
    /\ pc' = "wm_gate"
    /\ UNCHANGED <<parameters, table, files, idx, summary, posted, log, progressor, calls>>

\* lines 78-80: an unselected layer
DuplicateSkip ==
    /\ pc = "duplicate_loop"
    /\ idx <= Len(layers)
    /\ ~layers[idx].value
    /\ progressor' = increment(progressor)
    /\ idx' = idx + 1
    /\ UNCHANGED <<parameters, table, files, pc, summary, posted, log, calls>>

\* lines 82-99: a selected layer, find_duplicate_fids returns
DuplicateLayer ==
    /\ pc = "duplicate_loop"
    /\ idx <= Len(layers)
    /\ layers[idx].value
    /\ LET l == layers[idx]
           duplicate_fids == find_duplicate_fids(l)
           num_duplicate == num_duplicate_of(duplicate_fids)
       IN  /\ log' = Append(log, Message("info", "Checking for duplicate facility identifiers...", l.name))
           /\ calls' = Append(calls, Call("find_duplicate_fids", l, NoRegex, TRUE))
           /\ summary' = summary
                \o <<Result(l.name, "Duplicate facility identifiers grouped on each line (fid, object IDs):", -1),
                     Items(l.name, duplicate_fids),
                     Result(l.name, "duplicate facility identifiers.", num_duplicate)>>
    /\ progressor' = increment(progressor)
    /\ idx' = idx + 1
    /\ UNCHANGED <<parameters, table, files, pc, posted>>

\* lines 82-86: a selected layer, find_duplicate_fids raises ExecuteError
DuplicateRaise ==
    /\ pc = "duplicate_loop"
    /\ idx <= Len(layers)
    /\ layers[idx].value
    /\ LET l == layers[idx]
       IN  /\ log' = Append(log, Message("info", "Checking for duplicate facility identifiers...", l.name))
           /\ calls' = Append(calls, Call("find_duplicate_fids", l, NoRegex, FALSE))
    /\ pc' = "raised"
    /\ UNCHANGED <<parameters, table, files, idx, summary, posted, progressor>>

\* line 77: the layers are exhausted
DuplicateEnd ==
    /\ pc = "duplicate_loop"
    /\ idx > Len(layers)
    /\ pc' = "wm_gate"
    /\ UNCHANGED <<parameters, table, files, idx, summary, posted, log, progressor, calls>>

----------------------------------------------------------------------------
\* lines 101-105: a water-main check is ticked and the water-main layer is
\* omitted: execute returns here
WmGateReturn ==
    /\ pc = "wm_gate"
    /\ (is_wm_file_check \/ is_wm_ds_check) /\ ~wm_layer.value
    /\ log' = Append(log, Message("warning", "Layer omitted, skipping water main checks.",
                                  wm_layer.displayName))
    /\ pc' = "returned"
    /\ UNCHANGED <<parameters, table, files, idx, summary, posted, progressor, calls>>

\* line 101 false: line 107
WmGatePass ==
    /\ pc = "wm_gate"
    /\ ~((is_wm_file_check \/ is_wm_ds_check) /\ ~wm_layer.value)
    /\ progressor' = Progressor("default", "", 0)
    /\ pc' = "file_check"
    /\ UNCHANGED <<parameters, table, files, idx, summary, posted, log, calls>>

\* lines 109-130: find_nonexistent_assoc_files returns
FileCheck ==
    /\ pc = "file_check"
    /\ is_wm_file_check
    /\ LET nonexistent_files == find_nonexistent_assoc_files(wm_layer)
           num_unique == num_unique_of(nonexistent_files)
       IN  /\ log' = Append(log, Message("info", "Verifying assiociated files for integrated mains...",
                                         wm_layer.name))
           /\ calls' = Append(calls, Call("find_nonexistent_assoc_files", wm_layer, NoRegex, TRUE))
           /\ summary' = summary
                \o <<Result(wm_layer.name, "Nonexistent associated files (object ID, comments):", -1)>>
                \o (IF nonexistent_files # <<>> THEN <<Note(wm_layer.name)>> ELSE <<>>)
                \o <<Items(wm_layer.name, nonexistent_files),
                     Result(wm_layer.name, "nonexistent files for integrated mains.",
                            Len(nonexistent_files)),
                     Result(wm_layer.name, "unique nonexistent files files for integrated mains.",
                            num_unique)>>
    /\ pc' = "ds_check"
    /\ UNCHANGED <<parameters, table, files, idx, posted, progressor>>

\* lines 109-114: find_nonexistent_assoc_files raises ExecuteError
FileRaise ==
    /\ pc = "file_check"
    /\ is_wm_file_check
    /\ log' = Append(log, Message("info", "Verifying assiociated files for integrated mains...",
                                  wm_layer.name))
    /\ calls' = Append(calls, Call("find_nonexistent_assoc_files", wm_layer, NoRegex, FALSE))
    /\ pc' = "raised"
    /\ UNCHANGED <<parameters, table, files, idx, summary, posted, progressor>>

\* line 109, the toggle not ticked
FileOff ==
    /\ pc = "file_check"
    /\ ~is_wm_file_check
    /\ pc' = "ds_check"
    /\ UNCHANGED <<parameters, table, files, idx, summary, posted, log, progressor, calls>>

\* lines 132-149: find_incorrect_datasources returns
DatasourceCheck ==
    /\ pc = "ds_check"
    /\ is_wm_ds_check
    /\ LET inc_datasources == find_incorrect_datasources(wm_layer)
       IN  /\ log' = Append(log, Message("info", "Checking data sources for integrated mains...",
                                         wm_layer.name))
           /\ calls' = Append(calls, Call("find_incorrect_datasources", wm_layer, NoRegex, TRUE))
           /\ summary' = summary
                \o <<Result(wm_layer.name, "Missing or unknown data sources (object ID, datasource):", -1)>>
                \o (IF inc_datasources # <<>> THEN <<Note(wm_layer.name)>> ELSE <<>>)
                \o <<Items(wm_layer.name, inc_datasources),
                     Result(wm_layer.name, "missing or unknown data sources for integrated mains.",
                            Len(inc_datasources))>>
    /\ pc' = "post"
    /\ UNCHANGED <<parameters, table, files, idx, posted, progressor>>

\* lines 132-137: find_incorrect_datasources raises ExecuteError
DatasourceRaise ==
    /\ pc = "ds_check"
    /\ is_wm_ds_check
    /\ log' = Append(log, Message("info", "Checking data sources for integrated mains...",
                                  wm_layer.name))
    /\ calls' = Append(calls, Call("find_incorrect_datasources", wm_layer, NoRegex, FALSE))
    /\ pc' = "raised"
    /\ UNCHANGED <<parameters, table, files, idx, summary, posted, progressor>>

\* line 132, the toggle not ticked
DatasourceOff ==
    /\ pc = "ds_check"
    /\ ~is_wm_ds_check
    /\ pc' = "post"
    /\ UNCHANGED <<parameters, table, files, idx, summary, posted, log, progressor, calls>>

\* line 153: sy.post(), then execute returns
Post ==
    /\ pc = "post"
    /\ posted' = Append(posted, summary)
    /\ pc' = "returned"
    /\ UNCHANGED <<parameters, table, files, idx, summary, log, progressor, calls>>

----------------------------------------------------------------------------
\* Data

\* an identifier of the format of layer k: digits 1 and 2 between prefix and suffix
SampleFid(k) == regexes[k].prefix \o <<"1", "2">> \o regexes[k].suffix

\* the sample table of the layer at position k: an identifier of its own format
\* twice, one of the next layer's format, and mixed water-main attributes
SampleTable(k) ==
    << Row(101, SampleFid(k), <<"a">>, <<"U", "N", "K">>, <<"Y">>),
       Row(102, SampleFid((k % Len(regexes)) + 1), None, <<"G", "P", "S">>, <<"Y">>),
       Row(103, SampleFid(k), <<"b">>, None, <<"N">>) >>

\* identifier and integration status of a row of the identifier checks: a missing
\* and an empty identifier, one that matches ^\d+CA$ and one that matches no
\* pattern, the last two under either status
FidRowValues ==
    { <<None, <<"Y">>>>, <<<<>>, <<"N">>>>,
      <<<<"1", "2", "C", "A">>, <<"Y">>>>, <<<<"1", "2", "C", "A">>, <<"N">>>>,
      <<<<"1", "2", "A">>, <<"Y">>>>, <<<<"1", "2", "A">>, <<"N">>>> }

\* comment and data source of a water-main row: every comment value and every
\* data-source value occurs
MainFieldValues ==
    { <<None, None>>, <<<<"a">>, <<>>>>, <<<<"b">>, <<"U", "N", "K">>>>,
      <<<<"a">>, <<"G", "P", "S">>>> }

StatusValues == {<<"Y">>, <<"N">>}

\* file "a" may exist, file "b" never does
FileSets == {{}, {<<"a">>}}

\* every table of at most MaxFidRows rows over the identifier row values
FidTables ==
    UNION {{[i \in 1..n |-> Row(100 + i, c[i][1], None, None, c[i][2])] :
               c \in [1..n -> FidRowValues]} : n \in 0..MaxFidRows}

\* every table of at most MaxMainRows rows over the water-main row values
MainTables ==
    UNION {{[i \in 1..n |-> Row(100 + i, <<"1">>, c[i][1][1], c[i][1][2], c[i][2])] :
               c \in [1..n -> MainFieldValues \X StatusValues]} : n \in 0..MaxMainRows}

InitRun ==
    /\ pc = "start"
    /\ idx = 1
    /\ summary = <<>>
    /\ posted = <<>>
    /\ log = <<>>
    /\ progressor = Progressor("default", "", 0)
    /\ calls = <<>>

\* every combination of the toggles and of selected layers, over the sample data
Init ==
    /\ parameters \in {parameter_list(v) : v \in [1..NumParameters -> BOOLEAN]}
    /\ table = [n \in LayerNames |->
                  LET k == CHOOSE k \in 1..Len(lyr_templates) : lyr_templates[k][1] = n
                  IN  IF parameters[LAYER_START + k].value THEN SampleTable(k) ELSE <<>>]
    /\ files = {<<"a">>}
    /\ InitRun

Next ==
    \/ Begin
    \/ FormatBegin \/ FormatOff \/ FormatSkip \/ FormatLayer \/ FormatRaise \/ FormatEnd
    \/ DuplicateBegin \/ DuplicateOff \/ DuplicateSkip \/ DuplicateLayer \/ DuplicateRaise
    \/ DuplicateEnd
    \/ WmGateReturn \/ WmGatePass
    \/ FileCheck \/ FileRaise \/ FileOff
    \/ DatasourceCheck \/ DatasourceRaise \/ DatasourceOff
    \/ Post

Spec == Init /\ [][Next]_vars

\* the two identifier checks on every layer, over every bounded table
InitFids ==
    /\ parameters \in {parameter_list(v) :
                          v \in {w \in [1..NumParameters -> BOOLEAN] :
                                    /\ w[1] \/ w[2]
                                    /\ ~w[3] /\ ~w[4]
                                    /\ \A i \in (LAYER_START + 1)..NumParameters : w[i]}}
    /\ \E rows \in FidTables : table = [n \in LayerNames |-> rows]
    /\ files = {}
    /\ InitRun

NextFids ==
    \/ Begin
    \/ FormatBegin \/ FormatOff \/ FormatLayer \/ FormatRaise \/ FormatEnd
    \/ DuplicateBegin \/ DuplicateOff \/ DuplicateLayer \/ DuplicateRaise \/ DuplicateEnd
    \/ WmGatePass \/ FileOff \/ DatasourceOff
    \/ Post

SpecFids == InitFids /\ [][NextFids]_vars

\* the two water-main checks, over every bounded water-main table and file set
InitMains ==
    /\ parameters \in {parameter_list(v) :
                          v \in {w \in [1..NumParameters -> BOOLEAN] :
                                    /\ ~w[1] /\ ~w[2]
                                    /\ w[3] \/ w[4]
                                    /\ \A i \in (LAYER_START + 1)..NumParameters :
                                          w[i] = (i = NumParameters)}}
    /\ \E rows \in MainTables :
          table = [n \in LayerNames |-> IF n = "wm_lyr" THEN rows ELSE <<>>]
    /\ files \in FileSets
    /\ InitRun

NextMains ==
    \/ Begin
    \/ FormatOff \/ DuplicateOff
    \/ WmGatePass
    \/ FileCheck \/ FileRaise \/ FileOff
    \/ DatasourceCheck \/ DatasourceRaise \/ DatasourceOff
    \/ Post

SpecMains == InitMains /\ [][NextMains]_vars

----------------------------------------------------------------------------
\* Reading the run: the layers, the summary lines and the tables

LayerPositions == 1..Len(lyr_templates)
PositionOf(name) == CHOOSE k \in LayerPositions : lyr_templates[k][1] = name
Selected(name) == layers[PositionOf(name)].value
CallsOf(check) == {i \in 1..Len(calls) : calls[i].check = check}
CalledLayers(check) == {calls[i].layer : i \in CallsOf(check)}
SelectedLayers == {n \in LayerNames : Selected(n)}
Logged(m) == \E i \in 1..Len(log) : log[i] = m

FormatCountText == "incorrectly formatted facility identifiers."
DuplicateCountText == "duplicate facility identifiers."
FileCountText == "nonexistent files for integrated mains."
FileUniqueText == "unique nonexistent files files for integrated mains."
DatasourceCountText == "missing or unknown data sources for integrated mains."

\* the positions of the summary lines that report a count under the given text
CountLines(text) == {i \in 1..Len(summary) : summary[i].op = "result" /\ summary[i].text = text}

RowIndexes(name) == 1..Len(table[name])
Increasing(items, k) == \A i, j \in 1..Len(items) : i < j => items[i][k] < items[j][k]
Range(items) == {items[i] : i \in 1..Len(items)}

\* the identifier values of a table: what its rows carry, a missing or empty
\* identifier being no identifier
IdentifierValues(name) ==
    {table[name][i].FACILITYID : i \in RowIndexes(name)} \ {None, <<>>}
Carriers(name, fid) == {i \in RowIndexes(name) : table[name][i].FACILITYID = fid}
DuplicatedValues(name) == {f \in IdentifierValues(name) : Cardinality(Carriers(name, f)) > 1}

\* the object ids of a duplicate record (fid, oid1, oid2, ...)
GroupOids(g) == {g[k] : k \in 2..Len(g)}
GroupSize(g) == Len(g) - 1

RECURSIVE SumOver(_, _)
SumOver(f, S) == IF S = {} THEN 0 ELSE LET x == CHOOSE x \in S : TRUE IN f[x] + SumOver(f, S \ {x})

FidA == <<"1", "2", "C", "A">>
FidB == <<"1", "2", "A">>
FidsOfTable(name) == [i \in RowIndexes(name) |-> table[name][i].FACILITYID]

----------------------------------------------------------------------------
\* C1: every run of execute that returns without an execution error has posted
\* the accumulated report exactly once, as its last action, holding every line
\* added during the run.
C1_ReturnedMeansPosted ==
    pc = "returned" => (Len(posted) = 1 /\ posted[1] = summary)

\* C2: an execution error raised by a check is not caught by execute: the failing
\* call is the last call, nothing runs after it, post is not called, and the step
\* that raises leaves the summary as the completed checks left it.
C2_NoFailedCallIsFollowed ==
    \A i \in 1..Len(calls) :
        ~calls[i].ok => /\ i = Len(calls)
                        /\ pc = "raised"
                        /\ posted = <<>>
                        /\ Cardinality({j \in 1..Len(summary) : summary[j].op = "items"}) = i - 1

C2_RaiseStep ==
    /\ pc # "raised"
    /\ pc' = "raised" => /\ summary' = summary
                         /\ posted' = posted
                         /\ Len(calls') = Len(calls) + 1
                         /\ ~calls'[Len(calls')].ok

C2_ErrorPropagates == []C2_NoFailedCallIsFollowed /\ [][C2_RaiseStep]_vars

\* a run whose duplicate check raised after format checks had completed
C2_Witness ==
    /\ pc = "raised"
    /\ calls[Len(calls)].check = "find_duplicate_fids"
    /\ Len(calls) > 2
    /\ summary # <<>>

\* C3: no check is ever invoked on an unselected layer; every unselected layer is
\* warned of; a format or duplicate run that returns has checked every selected
\* layer; and with a water-main check ticked and the water-main layer unselected
\* the skip is warned of and neither water-main check is invoked.
C3_UnselectedLayersSkipped ==
    /\ \A i \in 1..Len(calls) : Selected(calls[i].layer)
    /\ pc # "start" =>
          \A k \in LayerPositions :
              ~layers[k].value => Logged(Message("warning", "Layer omitted", layers[k].displayName))
    /\ (pc = "returned" /\ is_fid_format_check) =>
          CalledLayers("find_incorrect_fids") = SelectedLayers
    /\ (pc = "returned" /\ is_fid_duplicate_check) =>
          CalledLayers("find_duplicate_fids") = SelectedLayers
    /\ (pc = "returned" /\ (is_wm_file_check \/ is_wm_ds_check) /\ ~wm_layer.value) =>
          /\ Logged(Message("warning", "Layer omitted, skipping water main checks.", "Water Main"))
          /\ CallsOf("find_nonexistent_assoc_files") = {}
          /\ CallsOf("find_incorrect_datasources") = {}

\* a returned run of both identifier checks in which a selected layer follows an
\* unselected one and the water-main checks were skipped
C3_Witness ==
    /\ pc = "returned"
    /\ is_fid_format_check /\ is_fid_duplicate_check /\ is_wm_file_check
    /\ ~wm_layer.value
    /\ ~Selected("ca_lyr") /\ Selected("cv_lyr") /\ ~Selected("ft_lyr") /\ Selected("sv_lyr")
    /\ "sv_lyr" \in CalledLayers("find_incorrect_fids")
    /\ "sv_lyr" \in CalledLayers("find_duplicate_fids")

\* C4 as stated: the reported duplicate count is the number of extra object ids,
\* the sum over the returned groups of (object ids in the group - 1).
C4_CountIsExtras ==
    \A i \in CountLines(DuplicateCountText) :
        LET groups == summary[i - 1].items
        IN  summary[i].n = SumOver([g \in 1..Len(groups) |-> GroupSize(groups[g]) - 1],
                                   1..Len(groups))

\* C4 as amended: the reported duplicate count is the number of object ids in the
\* returned groups, the sum of the group sizes: every row of the layer whose
\* identifier is carried by more than one row is counted. For the rows
\* (A,1),(A,2),(B,3) it is 2, and with no duplicate group it is 0.
C4_CountIsGroupMembers ==
    \A i \in CountLines(DuplicateCountText) :
        LET groups == summary[i - 1].items
            name == summary[i].layer
        IN  /\ summary[i].n = SumOver([g \in 1..Len(groups) |-> GroupSize(groups[g])],
                                      1..Len(groups))
            /\ summary[i].n = Cardinality(UNION {Carriers(name, f) : f \in DuplicatedValues(name)})
            /\ FidsOfTable(name) = <<FidA, FidA, FidB>> => summary[i].n = 2
            /\ groups = <<>> => summary[i].n = 0

\* the duplicate check has reported on the rows (A,1),(A,2),(B,3)
C4_Witness ==
    /\ pc = "returned"
    /\ FidsOfTable("ca_lyr") = <<FidA, FidA, FidB>>
    /\ \E i \in CountLines(DuplicateCountText) :
          /\ summary[i].layer = "ca_lyr"
          /\ summary[i].n = 2
          /\ summary[i - 1].items = << <<FidA, 101, 102>> >>

\* C5: the duplicate finder returns exactly one record per identifier value
\* carried by more than one row, holding the identifier and the object ids of all
\* the rows that carry it; an identifier carried by one row yields no record, and
\* a table of unique identifiers yields none at all.
C5_OneRecordPerDuplicatedValue ==
    \A i \in CountLines(DuplicateCountText) :
        LET groups == summary[i - 1].items
            name == summary[i].layer
        IN  /\ {groups[g][1] : g \in 1..Len(groups)} = DuplicatedValues(name)
            /\ Len(groups) = Cardinality(DuplicatedValues(name))
            /\ \A g \in 1..Len(groups) :
                  /\ GroupOids(groups[g]) =
                        {table[name][r].OBJECTID : r \in Carriers(name, groups[g][1])}
                  /\ GroupSize(groups[g]) = Cardinality(Carriers(name, groups[g][1]))
            /\ (\A f \in IdentifierValues(name) : Cardinality(Carriers(name, f)) = 1)
                  => groups = <<>>

\* the duplicate finder has run on a table that holds a duplicated identifier
\* next to a unique one
C5_Witness ==
    /\ pc = "returned"
    /\ FidsOfTable("wm_lyr") = <<FidB, FidA, FidB>>
    /\ \E i \in CountLines(DuplicateCountText) :
          /\ summary[i].layer = "wm_lyr"
          /\ summary[i - 1].items = << <<FidB, 101, 103>> >>

\* C6: the format check returns, in source order, exactly the (object id,
\* identifier) rows whose identifier does not fully match the layer's pattern,
\* whatever the integration status: a missing identifier is returned, a fully
\* matching one never is; under ^\d+CA$, "12A" is returned and "12CA" is not.
C6_FormatCheckFlagsMismatches ==
    \A i \in CountLines(FormatCountText) :
        LET items == summary[i - 1].items
            name == summary[i].layer
            regex == regexes[PositionOf(name)]
            rows == table[name]
        IN  /\ Increasing(items, 1)
            /\ Range(items) =
                  {<<rows[r].OBJECTID, rows[r].FACILITYID>> :
                      r \in {q \in RowIndexes(name) :
                                \/ rows[q].FACILITYID = None
                                \/ ~Matches(rows[q].FACILITYID, regex)}}
            /\ summary[i].n = Len(items)
            /\ name = "ca_lyr" =>
                  \A r \in RowIndexes(name) :
                      /\ rows[r].FACILITYID = FidB => <<rows[r].OBJECTID, FidB>> \in Range(items)
                      /\ rows[r].FACILITYID = FidA => <<rows[r].OBJECTID, FidA>> \notin Range(items)

\* the Casing format check has run on "12CA" and "12A", neither integrated, and on
\* a missing identifier, and returned the last two
C6_Witness ==
    /\ pc = "returned"
    /\ table["ca_lyr"] = << Row(101, FidA, None, None, <<"N">>),
                             Row(102, FidB, None, None, <<"N">>),
                             Row(103, None, None, None, <<"Y">>) >>
    /\ \E i \in CountLines(FormatCountText) :
          /\ summary[i].layer = "ca_lyr"
          /\ summary[i - 1].items = << <<102, FidB>>, <<103, None>> >>

\* C7: find_nonexistent_assoc_files returns, in source order, exactly the (object
\* id, comment) rows of the water-main layer whose integration status is "Y" and
\* whose file does not exist; a None comment is returned, and a row whose status
\* is not "Y" never is.
C7_NonexistentFilesOfIntegratedMains ==
    \A i \in CountLines(FileCountText) :
        LET items == summary[i - 1].items
            rows == table["wm_lyr"]
        IN  /\ summary[i].layer = "wm_lyr"
            /\ Increasing(items, 1)
            /\ Range(items) =
                  {<<rows[r].OBJECTID, rows[r].COMMENTS>> :
                      r \in {q \in RowIndexes("wm_lyr") :
                                /\ rows[q].INTEGRATIONSTATUS = <<"Y">>
                                /\ (rows[q].COMMENTS = None \/ rows[q].COMMENTS \notin files)}}
            /\ summary[i].n = Len(items)
            /\ \A r \in RowIndexes("wm_lyr") :
                  /\ (rows[r].INTEGRATIONSTATUS = <<"Y">> /\ rows[r].COMMENTS = None)
                        => <<rows[r].OBJECTID, None>> \in Range(items)
                  /\ rows[r].INTEGRATIONSTATUS # <<"Y">>
                        => \A j \in 1..Len(items) : items[j][1] # rows[r].OBJECTID

\* the file check has run on an integrated main with an existing file, an
\* integrated main without a comment, and a main that is not integrated
C7_Witness ==
    /\ pc = "returned"
    /\ files = {<<"a">>}
    /\ Len(table["wm_lyr"]) = 3
    /\ table["wm_lyr"][1].COMMENTS = <<"a">> /\ table["wm_lyr"][1].INTEGRATIONSTATUS = <<"Y">>
    /\ table["wm_lyr"][2].COMMENTS = None /\ table["wm_lyr"][2].INTEGRATIONSTATUS = <<"Y">>
    /\ table["wm_lyr"][3].COMMENTS = <<"b">> /\ table["wm_lyr"][3].INTEGRATIONSTATUS = <<"N">>
    /\ \E i \in CountLines(FileCountText) : summary[i - 1].items = << <<102, None>> >>

\* C8: find_incorrect_datasources returns exactly the (object id, data source)
\* rows of the water-main layer whose integration status is "Y" and whose data
\* source is "", "UNK" or null; any other data source is not returned, and a row
\* whose status is not "Y" never is.
C8_IncorrectDatasourcesOfIntegratedMains ==
    \A i \in CountLines(DatasourceCountText) :
        LET items == summary[i - 1].items
            rows == table["wm_lyr"]
        IN  /\ summary[i].layer = "wm_lyr"
            /\ Increasing(items, 1)
            /\ Range(items) =
                  {<<rows[r].OBJECTID, rows[r].DATASOURCE>> :
                      r \in {q \in RowIndexes("wm_lyr") :
                                /\ rows[q].INTEGRATIONSTATUS = <<"Y">>
                                /\ rows[q].DATASOURCE \in {<<>>, <<"U", "N", "K">>, None}}}
            /\ summary[i].n = Len(items)
            /\ \A j \in 1..Len(items) : items[j][2] # <<"G", "P", "S">>

\* the data-source check has run on integrated mains with a null, an "UNK" and a
\* "GPS" data source
C8_Witness ==
    /\ pc = "returned"
    /\ Len(table["wm_lyr"]) = 3
    /\ \A r \in 1..3 : table["wm_lyr"][r].INTEGRATIONSTATUS = <<"Y">>
    /\ table["wm_lyr"][1].DATASOURCE = None
    /\ table["wm_lyr"][2].DATASOURCE = <<"G", "P", "S">>
    /\ table["wm_lyr"][3].DATASOURCE = <<"U", "N", "K">>
    /\ \E i \in CountLines(DatasourceCountText) :
          summary[i - 1].items = << <<101, None>>, <<103, <<"U", "N", "K">>>> >>

\* C9: the reported "unique nonexistent files" count is the number of distinct
\* file references among the flagged rows: never above the occurrence count,
\* equal to it exactly when no two flagged rows share a reference, 0 exactly when
\* no row is flagged, and the flagged rows with a None reference count as one.
C9_UniqueCountsDistinctReferences ==
    \A i \in CountLines(FileUniqueText) :
        LET flagged == summary[i - 2].items
            occurrences == summary[i - 1].n
            unique == summary[i].n
            NoneRows == {j \in 1..Len(flagged) : flagged[j][2] = None}
            OtherRefs == {flagged[j][2] : j \in 1..Len(flagged)} \ {None}
        IN  /\ summary[i - 1].text = FileCountText
            /\ occurrences = Len(flagged)
            /\ unique = Cardinality({flagged[j][2] : j \in 1..Len(flagged)})
            /\ unique <= occurrences
            /\ (unique = occurrences) <=>
                  (\A j, k \in 1..Len(flagged) : flagged[j][2] = flagged[k][2] => j = k)
            /\ (unique = 0) <=> (flagged = <<>>)
            /\ unique = Cardinality(OtherRefs) + (IF NoneRows = {} THEN 0 ELSE 1)

\* the file check has flagged two rows without a reference and one with the
\* reference "b": three occurrences, two distinct values
C9_Witness ==
    /\ pc = "returned"
    /\ \E i \in CountLines(FileUniqueText) :
          /\ summary[i - 2].items = << <<101, None>>, <<102, <<"b">>>>, <<103, None>> >>
          /\ summary[i - 1].n = 3
          /\ summary[i].n = 2

\* the pattern the claim gives for each layer, by the layer's display name
ClaimedPattern(displayName) ==
    CASE displayName = "Casing" -> Regex(<<>>, <<"C", "A">>)
      [] displayName = "Control Valve" -> Regex(<<>>, <<"C", "V">>)
      [] displayName = "Fitting" -> Regex(<<>>, <<"F", "T">>)
      [] displayName = "Hydrant" -> Regex(<<>>, <<"H", "Y", "D">>)
      [] displayName = "Service Line" -> Regex(<<>>, <<"S", "E", "R", "V">>)
      [] displayName = "Structure" -> Regex(<<>>, <<"S", "T", "R">>)
      [] displayName = "System Valve" -> Regex(<<>>, <<"S", "V">>)
      [] displayName = "Water Main" ->
            Regex(<<"0", "0", "0", "0", "1", "5", "-", "W", "A", "T", "E", "R", "-", "0", "0", "0">>, <<>>)

\* C10: the format check always checks the layer at position k against the k-th
\* pattern, whichever layers are unselected, and checks every selected layer,
\* the water-main layer included, exactly once.
C10_LayerKeepsItsPattern ==
    /\ \A i \in CallsOf("find_incorrect_fids") :
          /\ calls[i].regex = ClaimedPattern(layers[PositionOf(calls[i].layer)].displayName)
          /\ \A j \in CallsOf("find_incorrect_fids") : calls[j].layer = calls[i].layer => j = i
    /\ (is_fid_format_check /\ pc \notin {"start", "format_check", "format_loop", "raised"}) =>
          CalledLayers("find_incorrect_fids") = SelectedLayers
    /\ \A i \in CountLines(FormatCountText) :
          summary[i - 1].items = << <<102, SampleFid((PositionOf(summary[i].layer) % Len(regexes)) + 1)>> >>

\* a returned format run with Casing and Fitting unselected in which the
\* water-main layer was checked against the water-main pattern
C10_Witness ==
    /\ pc = "returned"
    /\ is_fid_format_check
    /\ ~Selected("ca_lyr") /\ ~Selected("ft_lyr") /\ Selected("cv_lyr") /\ Selected("wm_lyr")
    /\ \E i \in CallsOf("find_incorrect_fids") :
          calls[i].layer = "wm_lyr" /\ calls[i].regex = regexes[Len(regexes)]

====
